---- MODULE Spec2Model ----
(***************************************************************************)
(* Model of rnsh/session.py: the listener session state machine            *)
(* (ListenerSession), its timers, the stream pump and the session          *)
(* registry.  A session is a record; every method of the class is an       *)
(* operator from a session record to a session record, so that a handler   *)
(* which calls terminate() and then keeps running is the composition of    *)
(* the operators in the order the code executes them.                      *)
(***************************************************************************)
EXTENDS Bags, FiniteSets, Integers, Sequences, TLC

\* ------------------------------------------------------------------ bounds
\* bytes a process writes on its two streams together
MaxBytes == 2
\* fatal error messages sent to one peer
MaxErrors == 2
\* delayed calls pending on the loop for one session
MaxTimers == 3
\* window-size, stdin and no-op messages a peer sends
MaxInput == 1
\* outlet.teardown() calls on one outlet
MaxTeardown == 2

\* --------------------------------------------------------------- constants
\* pump: mdu = self.outlet.mdu - 16
FramingOverhead == 16
\* rnsh.protocol.PROTOCOL_VERSION
PROTOCOL_VERSION == 1

SessionIds == {1, 2}           \* sessions / their outlets
MDUs == {16, 17, 18}           \* values outlet.mdu takes
Identities == {"allowed", "stranger"}
allowed_identity_hashes == {"allowed"}
Cmdlines == {<<>>, <<"r">>}    \* remote command lines

\* LSState
LSSTATE_WAIT_IDENT == "WAIT_IDENT"
LSSTATE_WAIT_VERS == "WAIT_VERS"
LSSTATE_WAIT_CMD == "WAIT_CMD"
LSSTATE_RUNNING == "RUNNING"
LSSTATE_ERROR == "ERROR"
LSSTATE_TEARDOWN == "TEARDOWN"
None == "None"

LSState == {LSSTATE_WAIT_IDENT, LSSTATE_WAIT_VERS, LSSTATE_WAIT_CMD,
            LSSTATE_RUNNING, LSSTATE_ERROR, LSSTATE_TEARDOWN}

\* StreamDataMessage.STREAM_ID_*
STREAM_ID_STDIN == "stdin"
STREAM_ID_STDOUT == "stdout"
STREAM_ID_STDERR == "stderr"

VARIABLES
    session,            \* session id -> the fields of that ListenerSession
    sessions,           \* ListenerSession.sessions, the registry (a list)
    outlet,             \* outlet id -> callbacks registered, teardown calls
    default_command,    \* ListenerSession.default_command
    allow_all,          \* ListenerSession.allow_all
    allow_remote_command, \* ListenerSession.allow_remote_command
    remote_cmd_as_args, \* ListenerSession.remote_cmd_as_args
    registry_pass       \* the running pump_all or terminate_all coroutine

vars == <<session, sessions, outlet, default_command, allow_all,
          allow_remote_command, remote_cmd_as_args, registry_pass>>

config == <<allow_all, allow_remote_command, remote_cmd_as_args>>

\* ------------------------------------------------------- python sequences
Min(a, b) == IF a < b THEN a ELSE b
Max(a, b) == IF a > b THEN a ELSE b

\* the index a python slice bound k denotes in a sequence of length n
SliceIndex(n, k) == IF k < 0 THEN Max(n + k, 0) ELSE Min(k, n)

\* buf[:k]
SliceTo(buf, k) == SubSeq(buf, 1, SliceIndex(Len(buf), k))

\* buf[k:]
SliceFrom(buf, k) == SubSeq(buf, SliceIndex(Len(buf), k) + 1, Len(buf))

\* list.remove(x): drops the first occurrence, ValueError suppressed
RECURSIVE Remove(_, _)
Remove(list, x) ==
    IF list = <<>> THEN <<>>
    ELSE IF Head(list) = x THEN Tail(list)
    ELSE <<Head(list)>> \o Remove(Tail(list), x)

\* ---------------------------------------------------------------- records
\* self.process: None, or a CallbackSubprocess and what is known of it
NoProcess == [exists |-> FALSE, running |-> FALSE, killed |-> FALSE,
              stdout_eof |-> FALSE, stderr_eof |-> FALSE, argv |-> <<>>]

\* CallbackSubprocess(argv=...) followed by start(); running is FALSE when
\* start() raised
Subprocess(argv, started) ==
    [exists |-> TRUE, running |-> started, killed |-> FALSE,
     stdout_eof |-> FALSE, stderr_eof |-> FALSE, argv |-> argv]

\* loop.call_later entries: the prune, or a watchdog with its fail condition
\* "self.state == expect" and the name it reports
PruneTimer == [kind |-> "prune", expect |-> None, name |-> None]
CheckTimer(expect, name) == [kind |-> "check", expect |-> expect, name |-> name]

Reason(text, detail) == <<text, detail>>
NoError == Reason(None, None)

\* the fields __init__ assigns before its _set_state call (return_code is
\* <<>> for None and <<code>> once set); the fields from
\* sent_errors on record what the session has handed to the messenger, the
\* process and the outlet so far
Fields ==
    [state |-> None, remote_identity |-> None,
     cmdline |-> [ref |-> None, list |-> <<>>],
     rows |-> 0, stdout_buf |-> <<>>, stdout_eof_sent |-> FALSE,
     stderr_buf |-> <<>>, stderr_eof_sent |-> FALSE,
     return_code |-> <<>>, return_code_sent |-> FALSE,
     process |-> NoProcess, timers |-> EmptyBag,
     sent_errors |-> 0, last_error |-> NoError, retries_cleared |-> 0,
     sent_version |-> 0,
     sent_noop |-> 0, winsize_calls |-> 0,
     sent_exited |-> 0, sent_stdout |-> <<>>, sent_stderr |-> <<>>,
     stdout_bytes |-> 0, stderr_bytes |-> 0,
     stdout_late |-> FALSE, stderr_late |-> FALSE,
     stdin_writes |-> 0, stdin_closed |-> 0, starts |-> 0]

\* ------------------------------------------------------- session methods
\* self._call(func, delay) with delay > 0: loop.call_later(delay, func)
call(r, timer) == [r EXCEPT !.timers = @ (+) SetToBag({timer})]

\* self.send(protocol.ErrorMessage(error, True))
send_error(r, error) ==
    [r EXCEPT !.sent_errors = @ + 1, !.last_error = error]

terminate_process(r) ==
    IF r.process.exists /\ r.process.running
    THEN [r EXCEPT !.process.killed = TRUE]
    ELSE r

\* terminate that schedules no _prune
terminate_unpruned(r, error) ==
    LET r1 == IF error # NoError /\ r.state # LSSTATE_TEARDOWN
              THEN send_error(r, error) ELSE r
        r2 == [r1 EXCEPT !.state = LSSTATE_ERROR]
    IN terminate_process(r2)

terminate(r, error) ==
    LET r1 == IF error # NoError /\ r.state # LSSTATE_TEARDOWN
              THEN send_error(r, error) ELSE r
        r2 == [r1 EXCEPT !.state = LSSTATE_ERROR]
        r3 == terminate_process(r2)
    IN call(r3, PruneTimer)

protocol_error(r, name) == terminate(r, Reason("Protocol error", name))

protocol_timeout_error(r, name) ==
    terminate(r, Reason("Protocol timeout error", name))

\* the watchdog compares the state at firing time with orig_state, the state
\* the session had BEFORE this call, and reports the new state's name
set_state(r, state) ==
    LET orig_state == r.state
    IN call([r EXCEPT !.state = state], CheckTimer(orig_state, state))

\* ListenerSession.__init__
init(r) == set_state(r, LSSTATE_WAIT_IDENT)

\* _check_protocol_timeout without its fail_condition
check_protocol_timeout_unguarded(r, expect, name) ==
    LET timeout == r.state # LSSTATE_TEARDOWN
    IN IF timeout THEN protocol_timeout_error(r, name) ELSE r

check_protocol_timeout(r, expect, name) ==
    LET timeout == r.state # LSSTATE_TEARDOWN /\ r.state = expect
    IN IF timeout THEN protocol_timeout_error(r, name) ELSE r

\* the part of _initiator_identified after the outlet check; neither
\* terminate call is followed by a return
initiator_identified(r, identity, allowed) ==
    LET r1 == IF r.state # LSSTATE_WAIT_IDENT
              THEN protocol_error(r, LSSTATE_WAIT_IDENT) ELSE r
        r2 == IF ~allowed
              THEN terminate(r1, Reason("Identity is not allowed.", None))
              ELSE r1
        r3 == [r2 EXCEPT !.remote_identity = identity]
    IN set_state(r3, LSSTATE_WAIT_VERS)

\* --------------------------------------------------------------- messages
Message(type) ==
    [type |-> type, protocol_version |-> 0, cmdline |-> <<>>, rows |-> 0,
     stream_id |-> None, data |-> 0, eof |-> FALSE]

VersionInfoMessage(v) == [Message("VersionInfo") EXCEPT !.protocol_version = v]
ExecuteCommandMesssage(cmdline) ==
    [Message("ExecuteCommand") EXCEPT !.cmdline = cmdline, !.rows = 24]
WindowSizeMessage == [Message("WindowSize") EXCEPT !.rows = 25]
StreamDataMessage(stream_id, n, eof) ==
    [Message("StreamData") EXCEPT !.stream_id = stream_id, !.data = n,
                                  !.eof = eof]
NoopMessage == Message("Noop")
CommandExitedMessage == Message("CommandExited")
\* bytes messenger.receive() cannot decode
Undecodable == Message("undecodable")

Messages ==
    {VersionInfoMessage(v) : v \in {PROTOCOL_VERSION, PROTOCOL_VERSION + 1}}
    \cup {ExecuteCommandMesssage(c) : c \in Cmdlines}
    \cup {WindowSizeMessage, NoopMessage, CommandExitedMessage}
    \cup {StreamDataMessage(STREAM_ID_STDIN, 1, FALSE),
          StreamDataMessage(STREAM_ID_STDIN, 0, TRUE),
          StreamDataMessage(STREAM_ID_STDOUT, 1, FALSE)}

\* ------------------------------------------------------------------- pump
\* Chunk with the buffer cut one byte too far
Chunk_lossy(buf, eof_reported, eof_sent, mdu_outlet) ==
    LET mdu == mdu_outlet - FramingOverhead
        data == SliceTo(buf, mdu)
        send_eof == eof_reported /\ Len(data) = 0 /\ ~eof_sent
    IN [data |-> data, buf |-> SliceFrom(buf, mdu + 1), send_eof |-> send_eof,
        eof_sent |-> eof_sent \/ send_eof,
        msg |-> [data |-> data, eof |-> send_eof, mdu |-> mdu_outlet]]

\* one branch of pump for the stream whose buffer is buf
Chunk(buf, eof_reported, eof_sent, mdu_outlet) ==
    LET mdu == mdu_outlet - FramingOverhead
        data == SliceTo(buf, mdu)
        send_eof == eof_reported /\ Len(data) = 0 /\ ~eof_sent
    IN [data |-> data, buf |-> SliceFrom(buf, mdu), send_eof |-> send_eof,
        eof_sent |-> eof_sent \/ send_eof,
        msg |-> [data |-> data, eof |-> send_eof, mdu |-> mdu_outlet]]

\* pump without the test of return_code_sent
pump_resend(r, ready, mdu_outlet) ==
    IF r.state # LSSTATE_RUNNING THEN r
    ELSE IF ~ready THEN r
    ELSE IF Len(r.stderr_buf) > 0 THEN
        LET c == Chunk(r.stderr_buf, r.process.stderr_eof, r.stderr_eof_sent,
                       mdu_outlet)
        IN [r EXCEPT !.stderr_buf = c.buf, !.stderr_eof_sent = c.eof_sent,
                     !.sent_stderr = Append(@, c.msg)]
    ELSE IF Len(r.stdout_buf) > 0 THEN
        LET c == Chunk(r.stdout_buf, r.process.stdout_eof, r.stdout_eof_sent,
                       mdu_outlet)
        IN [r EXCEPT !.stdout_buf = c.buf, !.stdout_eof_sent = c.eof_sent,
                     !.sent_stdout = Append(@, c.msg)]
    ELSE IF r.return_code # <<>> THEN
        call([r EXCEPT !.sent_exited = @ + 1, !.return_code_sent = TRUE],
             CheckTimer(LSSTATE_RUNNING, "CommandExitedMessage"))
    ELSE r

\* pump with the stdout branch ahead of the stderr branch
pump_stdout_first(r, ready, mdu_outlet) ==
    IF r.state # LSSTATE_RUNNING THEN r
    ELSE IF ~ready THEN r
    ELSE IF Len(r.stdout_buf) > 0 THEN
        LET c == Chunk(r.stdout_buf, r.process.stdout_eof, r.stdout_eof_sent,
                       mdu_outlet)
        IN [r EXCEPT !.stdout_buf = c.buf, !.stdout_eof_sent = c.eof_sent,
                     !.sent_stdout = Append(@, c.msg)]
    ELSE IF Len(r.stderr_buf) > 0 THEN
        LET c == Chunk(r.stderr_buf, r.process.stderr_eof, r.stderr_eof_sent,
                       mdu_outlet)
        IN [r EXCEPT !.stderr_buf = c.buf, !.stderr_eof_sent = c.eof_sent,
                     !.sent_stderr = Append(@, c.msg)]
    ELSE IF r.return_code # <<>> /\ ~r.return_code_sent THEN
        call([r EXCEPT !.sent_exited = @ + 1, !.return_code_sent = TRUE],
             CheckTimer(LSSTATE_RUNNING, "CommandExitedMessage"))
    ELSE r

pump(r, ready, mdu_outlet) ==
    IF r.state # LSSTATE_RUNNING THEN r
    ELSE IF ~ready THEN r
    ELSE IF Len(r.stderr_buf) > 0 THEN
        LET c == Chunk(r.stderr_buf, r.process.stderr_eof, r.stderr_eof_sent,
                       mdu_outlet)
        IN [r EXCEPT !.stderr_buf = c.buf, !.stderr_eof_sent = c.eof_sent,
                     !.sent_stderr = Append(@, c.msg)]
    ELSE IF Len(r.stdout_buf) > 0 THEN
        LET c == Chunk(r.stdout_buf, r.process.stdout_eof, r.stdout_eof_sent,
                       mdu_outlet)
        IN [r EXCEPT !.stdout_buf = c.buf, !.stdout_eof_sent = c.eof_sent,
                     !.sent_stdout = Append(@, c.msg)]
    ELSE IF r.return_code # <<>> /\ ~r.return_code_sent THEN
        call([r EXCEPT !.sent_exited = @ + 1, !.return_code_sent = TRUE],
             CheckTimer(LSSTATE_RUNNING, "CommandExitedMessage"))
    ELSE r

\* ------------------------------------------------------ message handling
\* these operators work on a pair: the session and the class attribute
\* default_command, which self.cmdline may alias
Ctx(r, dc) == [self |-> r, default_command |-> dc]

\* self.cmdline is a reference: to the class's default_command list, or to
\* the list of the received message
Alias == [ref |-> "default_command", list |-> <<>>]
Own(list) == [ref |-> "message", list |-> list]
Deref(cmdline, dc) == IF cmdline.ref = "default_command" THEN dc ELSE cmdline.list

set_window_size(r, rows) ==
    [r EXCEPT !.rows = rows,
              !.winsize_calls = IF r.process.exists THEN @ + 1 ELSE @]

start_cmd(c, cmdline, rows, started) ==
    LET r == [c.self EXCEPT !.cmdline = Alias]
        dc == c.default_command
    IN IF ~allow_remote_command /\ Len(cmdline) > 0
       THEN Ctx(terminate(r, Reason("Remote command line not allowed by listener", None)), dc)
       ELSE LET dc1 == IF remote_cmd_as_args /\ Len(cmdline) > 0
                       THEN dc \o cmdline ELSE dc
                r1 == IF ~remote_cmd_as_args /\ Len(cmdline) > 0
                      THEN [r EXCEPT !.cmdline = Own(cmdline)] ELSE r
                r2 == [r1 EXCEPT !.process = Subprocess(Deref(r1.cmdline, dc1), started),
                                 !.starts = @ + 1]
            IN IF started
               THEN Ctx(set_window_size(r2, rows), dc1)
               ELSE Ctx(terminate(r2, Reason("Unable to start process", None)), dc1)

received_stdin(r, data, eof) ==
    LET r1 == IF data > 0 THEN [r EXCEPT !.stdin_writes = @ + 1] ELSE r
    IN IF eof THEN [r1 EXCEPT !.stdin_closed = @ + 1] ELSE r1

handle_message(c, message, started) ==
    LET r == c.self
        dc == c.default_command
    IN CASE r.state = LSSTATE_WAIT_VERS ->
              IF message.type # "VersionInfo"
              THEN Ctx(protocol_error(r, r.state), dc)
              ELSE IF message.protocol_version # PROTOCOL_VERSION
              THEN Ctx(terminate(r, Reason("Incompatible protocol", None)), dc)
              ELSE Ctx(set_state([r EXCEPT !.sent_version = @ + 1],
                                 LSSTATE_WAIT_CMD), dc)
         [] r.state = LSSTATE_WAIT_CMD ->
              IF message.type # "ExecuteCommand"
              THEN Ctx(protocol_error(r, r.state), dc)
              ELSE start_cmd(Ctx(set_state(r, LSSTATE_RUNNING), dc),
                             message.cmdline, message.rows, started)
         [] r.state = LSSTATE_RUNNING ->
              IF message.type = "WindowSize"
              THEN Ctx(set_window_size(r, message.rows), dc)
              ELSE IF message.type = "StreamData"
              THEN IF message.stream_id # STREAM_ID_STDIN
                   THEN Ctx(protocol_error(r, r.state), dc)
                   ELSE Ctx(received_stdin(r, message.data, message.eof), dc)
              ELSE IF message.type = "Noop"
              THEN Ctx([r EXCEPT !.sent_noop = @ + 1], dc)
              ELSE c
         [] r.state \in {LSSTATE_ERROR, LSSTATE_TEARDOWN} -> c
         [] OTHER -> Ctx(protocol_error(r, "unexpected message"), dc)

\* the part of _packet_received after the outlet check
packet_received(c, raw, started) ==
    IF raw = Undecodable
    THEN Ctx(protocol_error(c.self, "error receiving packet"), c.default_command)
    ELSE handle_message(c, raw, started)

\* ------------------------------------------------ callbacks of an outlet
\* each callback starts with the check of the outlet it is passed (from)
\* against self.outlet (own)

\* _link_closed without its outlet check
link_closed_unchecked(r, own, from) ==
    terminate([r EXCEPT !.retries_cleared = @ + 1], NoError)

\* _link_closed; messenger.clear_retries(self.outlet) is counted
link_closed(r, own, from) ==
    IF from # own THEN r
    ELSE terminate([r EXCEPT !.retries_cleared = @ + 1], NoError)

\* _initiator_identified
identified_from(r, own, from, identity, allowed) ==
    IF from # own THEN r ELSE initiator_identified(r, identity, allowed)

\* _packet_received
received_from(c, own, from, raw, started) ==
    IF from # own THEN c ELSE packet_received(c, raw, started)

\* ---------------------------------------------------------------- actions
\* no pump_all or terminate_all is running; otherwise kind names it, i is
\* the position of its list iterator in cls.sessions, reason its argument,
\* and start and visited record the registry at the call and the sessions
\* the loop body ran for
NoPass == [kind |-> None, i |-> 0, reason |-> NoError, start |-> <<>>,
           visited |-> <<>>, returned |-> FALSE]

Constructed(s) == session[s].state # None

WithinBounds(r) ==
    /\ r.sent_errors <= MaxErrors
    /\ BagCardinality(r.timers) <= MaxTimers
    /\ r.sent_noop + r.stdin_writes + r.stdin_closed
         + (r.winsize_calls - r.starts) <= MaxInput
    /\ Len(r.sent_stdout) <= MaxBytes + 1
    /\ Len(r.sent_stderr) <= MaxBytes + 1

Update(s, r) ==
    /\ WithinBounds(r)
    /\ outlet[s].teardowns + CopiesIn(PruneTimer, r.timers) <= MaxTeardown
    /\ session' = [session EXCEPT ![s] = r]

\* the outlet o delivers its identity-confirmed callback to session s
InitiatorIdentified(s, o, identity) ==
    /\ Constructed(s)
    /\ outlet[o].initiator_identified_cb
    /\ Update(s, identified_from(session[s], s, o, identity,
                      allow_all \/ identity \in allowed_identity_hashes))
    /\ outlet' = IF o = s
                 THEN [outlet EXCEPT ![s].packet_received_cb = TRUE]
                 ELSE outlet
    /\ UNCHANGED <<sessions, default_command, config, registry_pass>>

\* the outlet o delivers a packet to session s
PacketReceived(s, o, raw, started) ==
    /\ Constructed(s)
    /\ outlet[o].packet_received_cb
    /\ LET c == received_from(Ctx(session[s], default_command), s, o, raw,
                              started)
       IN /\ Update(s, c.self)
          /\ default_command' = c.default_command
    /\ UNCHANGED <<sessions, outlet, config, registry_pass>>

\* the outlet o reports its link closed to session s
LinkClosed(s, o) ==
    /\ Constructed(s)
    /\ outlet[o].link_closed_cb
    /\ outlet' = [outlet EXCEPT ![o].link_closed_cb = FALSE]
    /\ Update(s, link_closed(session[s], s, o))
    /\ UNCHANGED <<sessions, default_command, config, registry_pass>>

\* session.terminate(error) called from outside the class
Terminate(s, error) ==
    /\ Constructed(s)
    /\ Update(s, terminate(session[s], error))
    /\ UNCHANGED <<sessions, outlet, default_command, config, registry_pass>>

\* the loop runs a scheduled _prune
Prune(s) ==
    /\ Constructed(s)
    /\ BagIn(PruneTimer, session[s].timers)
    /\ outlet[s].teardowns < MaxTeardown
    /\ session' = [session EXCEPT ![s].state = LSSTATE_TEARDOWN,
                                  ![s].timers = @ (-) SetToBag({PruneTimer})]
    /\ sessions' = Remove(sessions, s)
    /\ outlet' = [outlet EXCEPT ![s].teardowns = @ + 1]
    /\ UNCHANGED <<default_command, config, registry_pass>>

\* the watchdog t of session s comes due
Watchdog(s, t) ==
    /\ Constructed(s)
    /\ t.kind = "check"
    /\ BagIn(t, session[s].timers)
    /\ Update(s, check_protocol_timeout(
                    [session[s] EXCEPT !.timers = @ (-) SetToBag({t})],
                    t.expect, t.name))
    /\ UNCHANGED <<sessions, outlet, default_command, config, registry_pass>>

\* the loop runs a scheduled _check_protocol_timeout
CheckProtocolTimeout(s) ==
    \E t \in BagToSet(session[s].timers) : Watchdog(s, t)

\* one session.pump() call; ready is messenger.is_outlet_ready(outlet) and
\* mdu is outlet.mdu at the time of the call
Pump(s, ready, mdu) ==
    /\ Constructed(s)
    /\ Update(s, pump(session[s], ready, mdu))
    /\ UNCHANGED <<sessions, outlet, default_command, config, registry_pass>>

\* the process's stdout callback with n more bytes; the k-th byte a session's
\* process writes on a stream is the number k
Stdout(s, n) ==
    LET r == session[s]
        data == [i \in 1..n |-> r.stdout_bytes + i]
    IN /\ r.process.exists /\ ~r.process.stdout_eof
       /\ r.stdout_bytes + r.stderr_bytes + n <= MaxBytes
       /\ Update(s, [r EXCEPT !.stdout_buf = @ \o data,
                              !.stdout_bytes = @ + n,
                              !.stdout_late = @ \/ r.sent_stdout # <<>>])
       /\ UNCHANGED <<sessions, outlet, default_command, config, registry_pass>>

Stderr(s, n) ==
    LET r == session[s]
        data == [i \in 1..n |-> r.stderr_bytes + i]
    IN /\ r.process.exists /\ ~r.process.stderr_eof
       /\ r.stdout_bytes + r.stderr_bytes + n <= MaxBytes
       /\ Update(s, [r EXCEPT !.stderr_buf = @ \o data,
                              !.stderr_bytes = @ + n,
                              !.stderr_late = @ \/ r.sent_stderr # <<>>])
       /\ UNCHANGED <<sessions, outlet, default_command, config, registry_pass>>

\* the process handle reports end-of-stream
StdoutEof(s) ==
    /\ session[s].process.exists /\ ~session[s].process.stdout_eof
    /\ session' = [session EXCEPT ![s].process.stdout_eof = TRUE]
    /\ UNCHANGED <<sessions, outlet, default_command, config, registry_pass>>

StderrEof(s) ==
    /\ session[s].process.exists /\ ~session[s].process.stderr_eof
    /\ session' = [session EXCEPT ![s].process.stderr_eof = TRUE]
    /\ UNCHANGED <<sessions, outlet, default_command, config, registry_pass>>

\* the process ends and its terminated_callback runs
Terminated(s, return_code) ==
    /\ session[s].process.exists /\ session[s].process.running
    /\ session' = [session EXCEPT ![s].process.running = FALSE,
                                  ![s].return_code = <<return_code>>]
    /\ UNCHANGED <<sessions, outlet, default_command, config, registry_pass>>

\* pump_all from a resumption to its next await: the iterator of the for
\* loop takes the element at its position in the list as it is now
PumpAllStep(p, ready, mdu) ==
    IF p.i < Len(sessions)
    THEN LET s == sessions[p.i + 1]
         IN /\ Update(s, pump(session[s], ready, mdu))
            /\ registry_pass' = [p EXCEPT !.i = @ + 1,
                                          !.visited = Append(@, s)]
    ELSE /\ registry_pass' = [p EXCEPT !.returned = TRUE]
         /\ UNCHANGED session

\* pump_all is called and runs to its first await
PumpAll(ready, mdu) ==
    /\ registry_pass = NoPass
    /\ PumpAllStep([NoPass EXCEPT !.kind = "pump_all", !.start = sessions],
                   ready, mdu)
    /\ UNCHANGED <<sessions, outlet, default_command, config>>

\* the loop resumes pump_all after asyncio.sleep(0)
PumpAllResume(ready, mdu) ==
    /\ registry_pass.kind = "pump_all" /\ ~registry_pass.returned
    /\ PumpAllStep(registry_pass, ready, mdu)
    /\ UNCHANGED <<sessions, outlet, default_command, config>>

\* terminate_all from a resumption to its next await
TerminateAllStep(p) ==
    IF p.i < Len(sessions)
    THEN LET s == sessions[p.i + 1]
         IN /\ Update(s, terminate(session[s], p.reason))
            /\ registry_pass' = [p EXCEPT !.i = @ + 1,
                                          !.visited = Append(@, s)]
    ELSE /\ registry_pass' = [p EXCEPT !.returned = TRUE]
         /\ UNCHANGED session

\* terminate_all(reason) is called and runs to its first await
TerminateAll(reason) ==
    /\ registry_pass = NoPass
    /\ TerminateAllStep([NoPass EXCEPT !.kind = "terminate_all",
                                       !.reason = reason, !.start = sessions])
    /\ UNCHANGED <<sessions, outlet, default_command, config>>

\* the loop resumes terminate_all after asyncio.sleep(0)
TerminateAllResume ==
    /\ registry_pass.kind = "terminate_all" /\ ~registry_pass.returned
    /\ TerminateAllStep(registry_pass)
    /\ UNCHANGED <<sessions, outlet, default_command, config>>

\* ---------------------------------------------------------- specification
NoOutlet == [initiator_identified_cb |-> FALSE, link_closed_cb |-> FALSE,
             packet_received_cb |-> FALSE, teardowns |-> 0]

\* the outlet after ListenerSession.__init__ registered its callbacks
OwnedOutlet == [NoOutlet EXCEPT !.initiator_identified_cb = TRUE,
                                !.link_closed_cb = TRUE]

\* one session constructed on outlet 1, the configuration chosen
Init ==
    /\ session = [s \in SessionIds |-> IF s = 1 THEN init(Fields) ELSE Fields]
    /\ sessions = <<1>>
    /\ outlet = [o \in SessionIds |-> IF o = 1 THEN OwnedOutlet ELSE NoOutlet]
    /\ default_command = <<"sh">>
    /\ allow_all = FALSE
    /\ allow_remote_command = FALSE
    /\ remote_cmd_as_args = FALSE
    /\ registry_pass = NoPass

\* whether process.start() succeeds, for the message that starts one
StartOutcomes(m) == IF m.type = "ExecuteCommand" THEN BOOLEAN ELSE {TRUE}

ExternalReasons == {NoError, Reason("shutdown", None)}

Next ==
    \/ \E s, o \in SessionIds, i \in Identities : InitiatorIdentified(s, o, i)
    \/ \E s, o \in SessionIds, m \in Messages \cup {Undecodable} :
          \E started \in StartOutcomes(m) : PacketReceived(s, o, m, started)
    \/ \E s, o \in SessionIds : LinkClosed(s, o)
    \/ \E s \in SessionIds, e \in ExternalReasons : Terminate(s, e)
    \/ \E s \in SessionIds : Prune(s)
    \/ \E s \in SessionIds : CheckProtocolTimeout(s)
    \/ \E s \in SessionIds, rc \in {0} : Terminated(s, rc)

Spec == Init /\ [][Next]_vars

\* the loop runs every callback it was given with call_later, so a scheduled
\* _prune is not postponed for ever
Fairness == \A s \in SessionIds : WF_vars(Prune(s))

\* the packets that take a session forward, and one that cannot be decoded
LiveMessages == {VersionInfoMessage(PROTOCOL_VERSION),
                 ExecuteCommandMesssage(<<>>), Undecodable}

NextLive ==
    \/ \E s \in SessionIds, i \in Identities : InitiatorIdentified(s, s, i)
    \/ \E s \in SessionIds, m \in LiveMessages : PacketReceived(s, s, m, TRUE)
    \/ \E s \in SessionIds : LinkClosed(s, s)
    \/ \E s \in SessionIds, e \in ExternalReasons : Terminate(s, e)
    \/ \E s \in SessionIds : Prune(s)
    \/ \E s \in SessionIds : CheckProtocolTimeout(s)

SpecLive == Init /\ [][NextLive]_vars /\ Fairness

\* ---------------------------------------------- the command specification
\* a session taken to WAIT_CMD by the handlers themselves
AwaitingCommand ==
    LET r1 == initiator_identified(init(Fields), "allowed", TRUE)
    IN handle_message(Ctx(r1, <<"sh">>), VersionInfoMessage(PROTOCOL_VERSION),
                      TRUE)

\* two sessions of one listener, whose command policy is any of the four,
\* wait for their command and every earlier watchdog has fired
InitCmd ==
    /\ allow_all = FALSE
    /\ allow_remote_command \in BOOLEAN
    /\ remote_cmd_as_args \in BOOLEAN
    /\ session = [s \in SessionIds |->
                    [AwaitingCommand.self EXCEPT !.timers = EmptyBag]]
    /\ sessions = <<1, 2>>
    /\ outlet = [o \in SessionIds |->
                   [OwnedOutlet EXCEPT !.packet_received_cb = TRUE]]
    /\ default_command = AwaitingCommand.default_command
    /\ registry_pass = NoPass

CmdMessages == {VersionInfoMessage(PROTOCOL_VERSION)}
                   \cup {ExecuteCommandMesssage(c) : c \in Cmdlines}

NextCmd ==
    \/ \E s \in SessionIds, m \in CmdMessages :
          \E started \in StartOutcomes(m) : PacketReceived(s, s, m, started)
    \/ \E s \in SessionIds : CheckProtocolTimeout(s)
    \/ \E s \in SessionIds : Prune(s)

SpecCmd == InitCmd /\ [][NextCmd]_vars

\* ------------------------------------------------- the link specification
\* the sessions whose callbacks are followed; the outlets of the others
\* deliver to them as well
Followed == {1}

\* a new session 1 beside a session 2 that waits for its command
InitLink ==
    /\ allow_all = FALSE
    /\ allow_remote_command = FALSE
    /\ remote_cmd_as_args = FALSE
    /\ session = [s \in SessionIds |->
                    IF s \in Followed THEN init(Fields)
                    ELSE [AwaitingCommand.self EXCEPT !.timers = EmptyBag]]
    /\ sessions = <<1, 2>>
    /\ outlet = [o \in SessionIds |->
                   IF o \in Followed THEN OwnedOutlet
                   ELSE [OwnedOutlet EXCEPT !.packet_received_cb = TRUE]]
    /\ default_command = AwaitingCommand.default_command
    /\ registry_pass = NoPass

NextLink ==
    \/ \E s \in Followed, o \in SessionIds, i \in Identities :
          InitiatorIdentified(s, o, i)
    \/ \E s \in Followed, o \in SessionIds, m \in LiveMessages :
          PacketReceived(s, o, m, TRUE)
    \/ \E s \in Followed, o \in SessionIds : LinkClosed(s, o)
    \/ \E s \in Followed : Prune(s)
    \/ \E s \in Followed : CheckProtocolTimeout(s)
    \/ \E s \in Followed : Stdout(s, 1)
    \/ \E s \in Followed, rc \in {0} : Terminated(s, rc)

SpecLink == InitLink /\ [][NextLink]_vars

\* ------------------------------------------------- the pump specification
\* a session taken through the handshake by the handlers themselves
Handshake ==
    LET r1 == initiator_identified(init(Fields), "allowed", TRUE)
        c2 == handle_message(Ctx(r1, <<"sh">>),
                             VersionInfoMessage(PROTOCOL_VERSION), TRUE)
    IN handle_message(c2, ExecuteCommandMesssage(<<>>), TRUE)

\* session 1 runs its process and every handshake watchdog has fired
InitPump ==
    /\ allow_all = FALSE
    /\ allow_remote_command = FALSE
    /\ remote_cmd_as_args = FALSE
    /\ session = [s \in SessionIds |->
                    IF s = 1 THEN [Handshake.self EXCEPT !.timers = EmptyBag]
                    ELSE Fields]
    /\ sessions = <<1>>
    /\ outlet = [o \in SessionIds |->
                   IF o = 1 THEN [OwnedOutlet EXCEPT !.packet_received_cb = TRUE]
                   ELSE NoOutlet]
    /\ default_command = Handshake.default_command
    /\ registry_pass = NoPass

NextPump ==
    \/ \E s \in SessionIds, ready \in BOOLEAN, mdu \in MDUs : Pump(s, ready, mdu)
    \/ \E s \in SessionIds, n \in 1..MaxBytes : Stdout(s, n)
    \/ \E s \in SessionIds, n \in 1..MaxBytes : Stderr(s, n)
    \/ \E s \in SessionIds : StdoutEof(s)
    \/ \E s \in SessionIds : StderrEof(s)
    \/ \E s \in SessionIds, rc \in {0} : Terminated(s, rc)
    \/ \E s, o \in SessionIds : LinkClosed(s, o)
    \/ \E s \in SessionIds : Prune(s)
    \/ \E s \in SessionIds : CheckProtocolTimeout(s)

SpecPump == InitPump /\ [][NextPump]_vars

\* --------------------------------------------- the registry specification
\* two sessions run their processes and every handshake watchdog has fired
InitRegistry ==
    /\ allow_all = FALSE
    /\ allow_remote_command = FALSE
    /\ remote_cmd_as_args = FALSE
    /\ session = [s \in SessionIds |->
                    [Handshake.self EXCEPT !.timers = EmptyBag]]
    /\ sessions = <<1, 2>>
    /\ outlet = [o \in SessionIds |->
                   [OwnedOutlet EXCEPT !.packet_received_cb = TRUE]]
    /\ default_command = Handshake.default_command
    /\ registry_pass = NoPass

NextRegistry ==
    \/ \E ready \in BOOLEAN, mdu \in MDUs : PumpAll(ready, mdu)
    \/ \E ready \in BOOLEAN, mdu \in MDUs : PumpAllResume(ready, mdu)
    \/ TerminateAll(Reason("shutdown", None))
    \/ TerminateAllResume
    \/ \E s \in SessionIds : LinkClosed(s, s)
    \/ \E s \in SessionIds : Prune(s)
    \/ \E s \in SessionIds : Stdout(s, 1)

SpecRegistry == InitRegistry /\ [][NextRegistry]_vars

\* ------------------------------------------------------- session lifecycle
Negotiating == {LSSTATE_WAIT_VERS, LSSTATE_WAIT_CMD, LSSTATE_RUNNING}
Terminal == {LSSTATE_ERROR, LSSTATE_TEARDOWN}
IdentityNotAllowed == Reason("Identity is not allowed.", None)

\* the edges of the session state machine
Edges ==
    {<<LSSTATE_WAIT_IDENT, LSSTATE_WAIT_VERS>>,
     <<LSSTATE_WAIT_VERS, LSSTATE_WAIT_CMD>>,
     <<LSSTATE_WAIT_CMD, LSSTATE_RUNNING>>,
     <<LSSTATE_ERROR, LSSTATE_TEARDOWN>>}
    \cup {<<a, LSSTATE_ERROR>> : a \in LSState \ Terminal}

\* C1: a session whose latest fatal error is the rejection of the peer's
\* identity is in ERROR or TEARDOWN: after the rejection it never negotiates
\* a version, never waits for a command and never runs one.
C1_RejectedNeverNegotiates ==
    \A s \in SessionIds :
        session[s].last_error = IdentityNotAllowed
            => session[s].state \in Terminal

\* C2: every change of a session's state follows an edge of the state
\* machine: WAIT_IDENT->WAIT_VERS->WAIT_CMD->RUNNING, any non-terminal
\* state->ERROR, ERROR->TEARDOWN.
C2_OnlyListedEdges ==
    [][\A s \in SessionIds :
          (Constructed(s) /\ session[s].state' # session[s].state)
              => <<session[s].state, session[s].state'>> \in Edges]_vars

\* C3: TEARDOWN is terminal: a session in TEARDOWN stays in TEARDOWN under
\* every event.
C3_TeardownIsTerminal ==
    [][\A s \in SessionIds :
          session[s].state = LSSTATE_TEARDOWN
              => session[s].state' = LSSTATE_TEARDOWN]_vars

\* C4: terminate is idempotent: called on a session in ERROR or TEARDOWN it
\* changes nothing (no further error message, no further prune scheduled),
\* and the outlet is torn down at most once.
C4_TerminateIdempotent ==
    /\ [][\A s \in SessionIds, e \in ExternalReasons :
             (session[s].state \in Terminal /\ Terminate(s, e))
                 => session[s]' = session[s]]_vars
    /\ [](\A o \in SessionIds : outlet[o].teardowns <= 1)

\* C10: a watchdog armed on entering a handshake state that fires while the
\* session is still in that state terminates the session.
C10_WatchdogEnforcesProgress ==
    [][\A s \in SessionIds :
          \A t \in BagToSet(session[s].timers) :
              (/\ Watchdog(s, t)
               /\ t.name = session[s].state
               /\ session[s].state \in {LSSTATE_WAIT_IDENT, LSSTATE_WAIT_VERS,
                                         LSSTATE_WAIT_CMD})
                  => session[s].state' = LSSTATE_ERROR]_vars

\* ------------------------------------------------------------ stream pump
RECURSIVE Payload(_)
\* the bytes carried by a sequence of stream-data messages, in order
Payload(msgs) ==
    IF msgs = <<>> THEN <<>> ELSE Head(msgs).data \o Payload(Tail(msgs))

\* the first n bytes a process writes on a stream
Produced(n) == [i \in 1..n |-> i]

Ceil(n, k) == (n + k - 1) \div k

EofMessages(msgs) == {i \in 1..Len(msgs) : msgs[i].eof}

\* the messages pump hands to the messenger
SentByPump(r) == Len(r.sent_stderr) + Len(r.sent_stdout) + r.sent_exited

\* everything else the session sends
SentOtherwise(r) == r.sent_errors + r.sent_version + r.sent_noop

\* the pump call empties the buffer `before` of a stream whose end the
\* process has reported and whose end-of-stream has not been sent
Drains(before, after, eof_reported, eof_sent) ==
    before # <<>> /\ after = <<>> /\ eof_reported /\ ~eof_sent

\* C5: with a maximum message size above 16, the pump call that empties the
\* buffer of a stream whose end the process has reported sends its chunk
\* with the end-of-stream flag and latches the stream's EofSent flag.
C5_EofSentWithLastChunk ==
    [][\A s \in SessionIds : \A mdu \in {m \in MDUs : m > FramingOverhead} :
          LET r == session[s]
              q == session[s]'
          IN Pump(s, TRUE, mdu) =>
               /\ Drains(r.stdout_buf, q.stdout_buf, r.process.stdout_eof,
                         r.stdout_eof_sent)
                    => (q.stdout_eof_sent
                        /\ q.sent_stdout[Len(q.sent_stdout)].eof)
               /\ Drains(r.stderr_buf, q.stderr_buf, r.process.stderr_eof,
                         r.stderr_eof_sent)
                    => (q.stderr_eof_sent
                        /\ q.sent_stderr[Len(q.sent_stderr)].eof)]_vars

\* a message with the end-of-stream flag is appended to `after` only when the
\* stream's buffer is left empty, the process has reported the stream's end
\* and no such message was sent before
EofOnlyWhenDrained(before, after, buf_after, eof_reported, eof_sent) ==
    (after # before /\ after[Len(after)].eof)
        => (buf_after = <<>> /\ eof_reported /\ ~eof_sent)

\* C6: for stdout and for stderr, at most one stream-data message carries
\* the end-of-stream flag, it is sent with the stream's buffer empty and
\* after the process reported the stream's end, and an EofSent flag never
\* returns to false.
C6_EofOnceWhenDrained ==
    /\ [](\A s \in SessionIds :
            /\ Cardinality(EofMessages(session[s].sent_stdout)) <= 1
            /\ Cardinality(EofMessages(session[s].sent_stderr)) <= 1)
    /\ [][\A s \in SessionIds :
            LET r == session[s]
                q == session[s]'
            IN /\ EofOnlyWhenDrained(r.sent_stdout, q.sent_stdout, q.stdout_buf,
                                     r.process.stdout_eof, r.stdout_eof_sent)
               /\ EofOnlyWhenDrained(r.sent_stderr, q.sent_stderr, q.stderr_buf,
                                     r.process.stderr_eof, r.stderr_eof_sent)
               /\ r.stdout_eof_sent => q.stdout_eof_sent
               /\ r.stderr_eof_sent => q.stderr_eof_sent]_vars

\* C7: the command-exited message is sent at most once, only by a RUNNING
\* session whose return code is set, and return_code_sent turns true exactly
\* in the step that sends it and never turns false again.
C7_ExitedSentOnce ==
    /\ [](\A s \in SessionIds :
            /\ session[s].sent_exited <= 1
            /\ session[s].return_code_sent <=> session[s].sent_exited = 1)
    /\ [][\A s \in SessionIds :
            LET r == session[s]
                q == session[s]'
            IN /\ q.sent_exited # r.sent_exited
                    => /\ r.state = LSSTATE_RUNNING
                       /\ r.return_code # <<>>
                       /\ ~r.return_code_sent /\ q.return_code_sent
               /\ r.return_code_sent => q.return_code_sent]_vars

C7_Witness ==
    \E s \in SessionIds :
        session[s].sent_exited = 1 /\ session[s].return_code_sent

\* the messages msgs sent for a stream of which n bytes were produced and buf
\* is still buffered: sizes within the limit, no byte lost, duplicated or
\* reordered
ChunksPreserveStream(msgs, buf, n) ==
    /\ \A i \in 1..Len(msgs) :
          msgs[i].mdu > FramingOverhead
              => Len(msgs[i].data) \in 1..(msgs[i].mdu - FramingOverhead)
    /\ Payload(msgs) \o buf = Produced(n)

\* every message of msgs was sent under the maximum message size m
ConstantMdu(msgs, m) == \A i \in 1..Len(msgs) : msgs[i].mdu = m

\* all n bytes sent under a constant maximum message size above 16 took
\* exactly ceil(n / (m - 16)) messages
ExactChunkCount(msgs, buf, n) ==
    \A m \in MDUs :
        (m > FramingOverhead /\ buf = <<>> /\ n > 0 /\ ConstantMdu(msgs, m))
            => Len(msgs) = Ceil(n, m - FramingOverhead)

\* the same, allowing bytes produced while the buffer is being drained
ChunkCountBounds(msgs, buf, n) ==
    \A m \in MDUs :
        (m > FramingOverhead /\ buf = <<>> /\ n > 0 /\ ConstantMdu(msgs, m))
            => (Len(msgs) >= Ceil(n, m - FramingOverhead) /\ Len(msgs) <= n)

\* C8 as stated: chunks carry 1..M-16 bytes, the payloads sent followed by
\* the buffer are the bytes produced, and N bytes produced under a constant
\* M take exactly ceil(N/(M-16)) chunks.
C8_ChunkingAsStated ==
    \A s \in SessionIds :
        LET r == session[s]
        IN /\ ChunksPreserveStream(r.sent_stdout, r.stdout_buf, r.stdout_bytes)
           /\ ChunksPreserveStream(r.sent_stderr, r.stderr_buf, r.stderr_bytes)
           /\ ExactChunkCount(r.sent_stdout, r.stdout_buf, r.stdout_bytes)
           /\ ExactChunkCount(r.sent_stderr, r.stderr_buf, r.stderr_bytes)

\* C8 amended: chunks carry 1..M-16 bytes, the payloads sent followed by the
\* buffer are the bytes produced, and N bytes under a constant M take
\* exactly ceil(N/(M-16)) chunks when all of them were buffered before the
\* stream's first chunk was sent, and between that many and N chunks when
\* some were produced while the buffer was being drained.
C8_ChunkingPreservesStream ==
    \A s \in SessionIds :
        LET r == session[s]
        IN /\ ChunksPreserveStream(r.sent_stdout, r.stdout_buf, r.stdout_bytes)
           /\ ChunksPreserveStream(r.sent_stderr, r.stderr_buf, r.stderr_bytes)
           /\ ~r.stdout_late
                => ExactChunkCount(r.sent_stdout, r.stdout_buf, r.stdout_bytes)
           /\ ~r.stderr_late
                => ExactChunkCount(r.sent_stderr, r.stderr_buf, r.stderr_bytes)
           /\ ChunkCountBounds(r.sent_stdout, r.stdout_buf, r.stdout_bytes)
           /\ ChunkCountBounds(r.sent_stderr, r.stderr_buf, r.stderr_bytes)

\* two bytes buffered at once have left in two one-byte chunks
C8_Witness ==
    \E s \in SessionIds :
        LET r == session[s]
        IN /\ r.stdout_bytes = 2 /\ ~r.stdout_late /\ r.stdout_buf = <<>>
           /\ Len(r.sent_stdout) = 2
           /\ ConstantMdu(r.sent_stdout, FramingOverhead + 1)

\* C9: a pump call sends at most one message; with stderr buffered at its
\* start that message is a stderr chunk, a stdout chunk is sent only with
\* stderr empty and the command-exited message only with both buffers
\* empty; a session that is not RUNNING, or whose outlet is not ready, sends
\* nothing and keeps its buffers and sent-flags.
C9_OneMessageStderrFirst ==
    [][\A s \in SessionIds, ready \in BOOLEAN, mdu \in MDUs :
          LET r == session[s]
              q == session[s]'
          IN Pump(s, ready, mdu) =>
               /\ SentByPump(q) - SentByPump(r) \in {0, 1}
               /\ SentOtherwise(q) = SentOtherwise(r)
               /\ r.stderr_buf # <<>>
                    => (q.sent_stdout = r.sent_stdout
                        /\ q.sent_exited = r.sent_exited)
               /\ q.sent_stdout # r.sent_stdout => r.stderr_buf = <<>>
               /\ q.sent_exited # r.sent_exited
                    => (r.stderr_buf = <<>> /\ r.stdout_buf = <<>>)
               /\ (r.state # LSSTATE_RUNNING \/ ~ready)
                    => /\ SentByPump(q) = SentByPump(r)
                       /\ q.stderr_buf = r.stderr_buf
                       /\ q.stdout_buf = r.stdout_buf
                       /\ q.stderr_eof_sent = r.stderr_eof_sent
                       /\ q.stdout_eof_sent = r.stdout_eof_sent
                       /\ q.return_code_sent = r.return_code_sent]_vars

\* a stderr chunk, a stdout chunk and the command-exited message were sent
C9_Witness ==
    \E s \in SessionIds :
        /\ session[s].sent_stderr # <<>>
        /\ session[s].sent_stdout # <<>>
        /\ session[s].sent_exited = 1

\* ------------------------------------------------------ post-exit watchdog
ExitWatchdog == CheckTimer(LSSTATE_RUNNING, "CommandExitedMessage")
ExitTimeout == Reason("Protocol timeout error", "CommandExitedMessage")

\* C11: the pump call that sends the command-exited message arms one
\* watchdog; when it fires on a RUNNING session the session goes to ERROR
\* with a protocol-timeout error, and when it fires on a session that has
\* left RUNNING nothing but the timer itself changes.
C11_PostExitWatchdog ==
    [][\A s \in SessionIds :
          LET r == session[s]
              q == session[s]'
          IN /\ q.sent_exited # r.sent_exited
                  => q.timers = r.timers (+) SetToBag({ExitWatchdog})
             /\ Watchdog(s, ExitWatchdog) =>
                  IF r.state = LSSTATE_RUNNING
                  THEN /\ q.state = LSSTATE_ERROR
                       /\ q.sent_errors = r.sent_errors + 1
                       /\ q.last_error = ExitTimeout
                  ELSE q = [r EXCEPT !.timers = @ (-) SetToBag({ExitWatchdog})]
      ]_vars

\* the post-exit watchdog has timed a session out
C11_Witness ==
    \E s \in SessionIds :
        /\ session[s].last_error = ExitTimeout
        /\ session[s].state \in Terminal
        /\ session[s].sent_exited = 1

\* ------------------------------------------------------- teardown, registry
Registered(s) == \E i \in 1..Len(sessions) : sessions[i] = s
TornDown(s) ==
    /\ session[s].state = LSSTATE_TEARDOWN
    /\ ~Registered(s)
    /\ outlet[s].teardowns > 0

\* C12: a session in ERROR reaches TEARDOWN, and is then out of the registry
\* with its outlet torn down, whatever happens to it in between.
C12_ErrorLeadsToTeardown ==
    \A s \in SessionIds : (session[s].state = LSSTATE_ERROR) ~> TornDown(s)

\* a session that was in ERROR and took further events has been pruned
C12_Witness ==
    \E s \in SessionIds :
        /\ TornDown(s)
        /\ session[s].sent_errors > 0
        /\ session[s].sent_version > 0

Occurrences(s) == Cardinality({i \in 1..Len(sessions) : sessions[i] = s})

\* C13: a constructed session is in the registry exactly once while its
\* state is not TEARDOWN and not at all once it is TEARDOWN; only _prune
\* takes a session out and nothing puts one back.
C13_RegistryMembership ==
    \A s \in SessionIds :
        Constructed(s) =>
            Occurrences(s) = IF session[s].state = LSSTATE_TEARDOWN THEN 0 ELSE 1

\* ---------------------------------------------------------- command line
\* the command the listener was configured with
ConfiguredCommand == <<"sh">>

\* C14: no session changes the listener's default command line, whatever
\* the command policy and the remote command line.
C14_DefaultCommandUnchanged == default_command = ConfiguredCommand

Execute(s, cmdline, started) ==
    /\ session[s].state = LSSTATE_WAIT_CMD
    /\ PacketReceived(s, s, ExecuteCommandMesssage(cmdline), started)

PolicyReason == Reason("Remote command line not allowed by listener", None)

\* what the claim says a session does with an execute-command message
Resolved(r, q, cmdline) ==
    IF cmdline = <<>>
    THEN q.starts = r.starts + 1 /\ q.process.argv = ConfiguredCommand
    ELSE IF ~allow_remote_command
    THEN /\ q.state = LSSTATE_ERROR
         /\ q.last_error = PolicyReason
         /\ q.starts = r.starts
         /\ q.process = r.process
    ELSE IF remote_cmd_as_args
    THEN q.starts = r.starts + 1
         /\ q.process.argv = ConfiguredCommand \o cmdline
    ELSE q.starts = r.starts + 1 /\ q.process.argv = cmdline

\* C15: an empty remote command line starts the default command, a
\* forbidden one terminates the session without a process, one passed as
\* arguments starts the default command followed by it, and any other
\* starts the remote command line alone.
C15_CommandResolution ==
    [][\A s \in SessionIds, c \in Cmdlines, started \in BOOLEAN :
          Execute(s, c, started) => Resolved(session[s], session[s]', c)
      ]_vars

\* ------------------------------------------------------ received packets
\* the message types the claim lists as accepted in each negotiating state
AcceptedTypes(state) ==
    CASE state = LSSTATE_WAIT_VERS -> {"VersionInfo"}
      [] state = LSSTATE_WAIT_CMD -> {"ExecuteCommand"}
      [] state = LSSTATE_RUNNING -> {"WindowSize", "StreamData", "Noop"}
      [] OTHER -> {}

Violation(state, m) ==
    \/ m = Undecodable
    \/ m.type \notin AcceptedTypes(state)
    \/ m.type = "StreamData" /\ m.stream_id # STREAM_ID_STDIN

\* what a session shows of having acted on a message
Acted(r) == <<r.sent_version, r.sent_noop, r.starts, r.process, r.rows,
              r.winsize_calls, r.stdin_writes, r.stdin_closed>>

\* C16: in WAIT_VERS, WAIT_CMD and RUNNING a message of a type the state
\* does not accept, stream data not tagged stdin, or bytes that cannot be
\* decoded put the session in ERROR and have no other effect of a message.
C16_ViolationIsFatal ==
    \A s \in SessionIds, m \in Messages \cup {Undecodable} :
        /\ Constructed(s)
        /\ outlet[s].packet_received_cb
        /\ session[s].state \in Negotiating
        /\ Violation(session[s].state, m)
        => LET q == packet_received(Ctx(session[s], default_command), m,
                                    TRUE).self
           IN /\ q.state = LSSTATE_ERROR
              /\ Acted([q EXCEPT !.process.killed = FALSE])
                   = Acted([session[s] EXCEPT !.process.killed = FALSE])

\* C17: a packet that reaches a session in ERROR or TEARDOWN changes
\* nothing: not its state, not what it has sent, not what its process was
\* given, not its scheduled prunes.
C17_PacketIgnoredWhenTerminal ==
    \A s \in SessionIds, m \in Messages \cup {Undecodable} :
        /\ Constructed(s)
        /\ outlet[s].packet_received_cb
        /\ session[s].state \in Terminal
        => packet_received(Ctx(session[s], default_command), m, TRUE)
             = Ctx(session[s], default_command)

\* ------------------------------------------------------ outlet callbacks
Prunes(r) == CopiesIn(PruneTimer, r.timers)

\* what _link_closed from the session's own outlet makes of r
ClosedAsClaimed(r, q) ==
    /\ q.retries_cleared = r.retries_cleared + 1
    /\ q.state = LSSTATE_ERROR
    /\ q.process.killed = (r.process.killed
                             \/ (r.process.exists /\ r.process.running))
    /\ Prunes(q) = Prunes(r) + 1
    /\ SentByPump(q) = SentByPump(r)
    /\ SentOtherwise(q) = SentOtherwise(r)

\* C18: link-closed from the session's own outlet, in any state, clears the
\* outlet's retries and terminates the session without an error message;
\* a link-closed, identity or packet callback from another outlet leaves
\* the session as it was.
C18_LinkClosedTerminatesQuietly ==
    \A s, o \in SessionIds :
        Constructed(s) =>
          /\ outlet[o].link_closed_cb =>
                IF o = s
                THEN ClosedAsClaimed(session[s], link_closed(session[s], s, o))
                ELSE link_closed(session[s], s, o) = session[s]
          /\ outlet[o].initiator_identified_cb /\ o # s =>
                \A i \in Identities :
                    identified_from(session[s], s, o, i, TRUE) = session[s]
          /\ outlet[o].packet_received_cb /\ o # s =>
                \A m \in Messages \cup {Undecodable} :
                    received_from(Ctx(session[s], default_command), s, o, m,
                                  TRUE).self = session[s]

\* a session that ran a process and holds output was terminated by its
\* link closing, after the other outlet's link-closed reached it
C18_Witness ==
    \E s, o \in SessionIds :
        /\ o # s
        /\ session[s].retries_cleared > 0
        /\ session[s].process.killed
        /\ Len(session[s].stdout_buf) > 0
        /\ ~outlet[o].link_closed_cb
        /\ session[o].retries_cleared = 0

\* -------------------------------------------------------- registry passes
Visits(s) ==
    Cardinality({i \in 1..Len(registry_pass.visited) :
                    registry_pass.visited[i] = s})
AtStart(s) ==
    \E i \in 1..Len(registry_pass.start) : registry_pass.start[i] = s

\* C19: when terminate_all has returned every session that was registered
\* at its call is in ERROR or TEARDOWN, and when pump_all has returned
\* every session registered from its call to its return was pumped once,
\* whichever sessions were pruned at the awaits in between.
C19_PassVisitsEverySession ==
    registry_pass.returned =>
        \A s \in SessionIds :
            /\ registry_pass.kind = "terminate_all" /\ AtStart(s)
                  => session[s].state \in Terminal
            /\ registry_pass.kind = "pump_all" /\ AtStart(s) /\ Registered(s)
                  => Visits(s) = 1

\* --------------------------------------------------------- child process
\* the child runs and terminate() was never called on it
Orphaned(r) == r.process.exists /\ r.process.running /\ ~r.process.killed

\* C20: a session in ERROR or TEARDOWN has no child process that still runs
\* without having been terminated.
C20_NoOrphanedProcess ==
    \A s \in SessionIds :
        session[s].state \in Terminal => ~Orphaned(session[s])

====
